---- MODULE Spec2Model ----
(***************************************************************************)
(* Model of do-tools (dot): the CLI commands of dot.py / dot/__init__.py   *)
(* and the helpers of dot/helpers.py.                                      *)
(*                                                                         *)
(*   Spec      one CLI invocation (pull, log, config, show) from process   *)
(*             start to process exit, exceptions propagated as Python      *)
(*             propagates them.                                            *)
(*   SpecApps  one pass of k8s_apps over a pod list, one container status  *)
(*             per step.                                                   *)
(*                                                                         *)
(* Strings built with format() are modelled as tuples of their parts, an   *)
(* Optional value as a sequence of length 0 or 1.                          *)
(***************************************************************************)
EXTENDS Integers, Sequences, FiniteSets, TLC

\* Bounds of the model.
MaxLines == 2     \* lines a subprocess writes before it closes its stream
MaxPods == 2      \* pods returned by list_namespaced_pod
MaxVisits == 3    \* container statuses over all pods of one pass
\* Output lines read from the subprocesses when two invocations run.
MaxRaceLines == 1

\* CLI invocations (operating-system processes running dot.py).
Procs == {"p1", "p2"}

\* config.yml as validated by ConfigModel: per environment the kube context
\* file and the pull map (its keys, in the order of the YAML document).
Config ==
    [stage |-> [k8s |-> "k8s-stage.yaml", pull |-> <<"exchange", "billing">>],
     prod  |-> [k8s |-> "k8s-prod.yaml",  pull |-> <<"billing">>]]

\* Executor.term_envs.keys()
TermEnvs == <<"stage", "prod">>

\* Command-line inputs.
Commands == {"pull", "log", "config", "show"}
EnvArgs == {"stage", "prod", "dev"}
AliasArgs == {"exchange", "billing", "orders"}

Range(s) == {s[i] : i \in 1..Len(s)}

\* `needle in line` of Python, on sequences of characters.
Contains(line, needle) ==
    \E i \in 0..(Len(line) - Len(needle)) :
        \A j \in 1..Len(needle) : line[i + j] = needle[j]

ErrorMark == <<"e", "r", "r", "o", "r", ":">>

\* Output lines of pg_dump.
Lines ==
    {<<"r", "e", "a", "d">>,
     <<"e", "r", "r", "o", "r", ":">>,
     <<"x", " ", "e", "r", "r", "o", "r", ":", " ", "y">>,
     <<"e", "r", "r", "o", "r">>,
     <<"E", "R", "R", "O", "R", ":">>}

\* Output lines of pg_restore.
RestoreLines ==
    {<<"r", "e", "a", "d">>,
     <<"e", "r", "r", "o", "r", ":">>}

\* f'{env}_{alias}'
dba(env, alias) == <<env, alias>>

\* Path(workdir) / '.cache' / f'{real_db_name}.tar.gz'
dba_file(workdir, real_db_name) == <<workdir, ".cache">> \o real_db_name

\* Executor.app_dir
app_dir == "app_dir"

\* Path(s) of a plain string: a path relative to the working directory.
PathOf(s) == <<s>>

\* Error.found: the NOT FOUND panel naming the alias and the alternatives.
Error_found(alias, variants) ==
    [lb |-> "NOT FOUND", msg |-> "not found, try", args |-> <<alias>> \o variants]

\* Error.error: the ERROR panel of an Error member, formatted with details.
Error_error(err, details) ==
    [lb |-> "ERROR", msg |-> err, args |-> details]

\* Msg.info(Msg.pull_info(env, alias, ...), env)
Msg_info(env, alias) ==
    [lb |-> "INFO", msg |-> "pulled to local", args |-> <<env, alias>> \o dba(env, alias)]

\* psycopg exception classes listed in PG_ERRORS (DuplicateDatabase and every
\* other driver error derive from psycopg.errors.DatabaseError).
PG_ERRORS == {"DuplicateDatabase", "DatabaseError", "OperationalError", "InterfaceError"}

\* Exceptions deriving from Exception; SystemExit and KeyboardInterrupt do not.
ExceptionClasses ==
    PG_ERRORS \cup {"DotError", "TimeoutExpired", "OSError", "AttributeError"}

VARIABLES
    pc,          \* [Procs -> position of the invocation]
    inv,         \* [Procs -> [cmd, env, arg]]: the command line
    console,     \* [Procs -> BOOLEAN]: self.console is assigned
    exc,         \* [Procs -> exception in flight, "none" if none]
    printed,     \* [Procs -> sequence of panels printed on the console]
    exitStatus,  \* [Procs -> -1 while running, else the process exit status]
    traceback,   \* [Procs -> BOOLEAN]: ended by an uncaught exception
    sql,         \* [Procs -> statements executed on the local server]
    spawned,     \* [Procs -> programs spawned with Popen]
    dumpOut,     \* [Procs -> lines read from pg_dump]
    restoreOut,  \* [Procs -> lines read from pg_restore]
    pullReturned,\* [Procs -> BOOLEAN]: Cmd.pull has returned or raised
    waits,       \* [Procs -> outcomes of the _proc.wait(3) calls so far]
    dbs,         \* databases of the local server
    fs,          \* paths that exist in the file system
    apps,        \* k8s_apps: _apps, the (name, AppInfo) items in insertion order
    rebuilds,    \* k8s_apps: _rebuilds
    curPod,      \* k8s_apps: _pod of the outer loop, <<>> before the first
    nPods,       \* k8s_apps: pods taken from _pods.items so far
    seen,        \* k8s_apps: the (pod, container status) pairs visited so far
    passPc       \* k8s_apps: position of the pass

cliVars == <<pc, inv, console, exc, printed, exitStatus, traceback, sql, spawned,
             dumpOut, restoreOut, pullReturned, waits, dbs, fs>>
passVars == <<apps, rebuilds, curPod, nPods, seen, passPc>>
vars == <<pc, inv, console, exc, printed, exitStatus, traceback, sql, spawned,
          dumpOut, restoreOut, pullReturned, waits, dbs, fs,
          apps, rebuilds, curPod, nPods, seen, passPc>>

NoArgs == [cmd |-> "none", env |-> "none", arg |-> "none"]

\* The job's dump file and local database of invocation p.
JobDb(p) == dba(inv[p].env, inv[p].arg)
JobFile(p) == dba_file(app_dir, JobDb(p))

(***************************************************************************)
(* Console, exceptions, process exit                                       *)
(***************************************************************************)

\* Executor._error: console.print(err_content), then sys.exit(1). With
\* self.console not yet assigned the attribute lookup raises AttributeError
\* and nothing is printed.
Executor_error(p, hasConsole, err_content) ==
    IF hasConsole
    THEN /\ printed' = [printed EXCEPT ![p] = Append(@, err_content)]
         /\ exc' = [exc EXCEPT ![p] = "SystemExit"]
    ELSE /\ printed' = printed
         /\ exc' = [exc EXCEPT ![p] = "AttributeError"]

\* Executor._clean_temporary: os.remove(path) if Path(path).exists().
Executor_clean_temporary(files, real_dump_path) == files \ {real_dump_path}

\* Executor._init_console, called by Executor.__init__ before self.console is
\* assigned: an unknown environment goes to _error.
InitConsole(p) ==
    /\ pc[p] = "start"
    /\ IF inv[p].env \notin Range(TermEnvs)
       THEN /\ Executor_error(p, console[p], Error_found(inv[p].env, TermEnvs))
            /\ pc' = [pc EXCEPT ![p] = "terminate"]
            /\ UNCHANGED console
       ELSE /\ console' = [console EXCEPT ![p] = TRUE]
            /\ pc' = [pc EXCEPT ![p] = "load_config"]
            /\ UNCHANGED <<printed, exc>>
    /\ UNCHANGED <<inv, waits, exitStatus, traceback, sql, spawned, dumpOut, restoreOut,
                   pullReturned, dbs, fs, passVars>>

\* Executor._load_config: YamlLoader(...).load() returns the validated
\* document or raises.
LoadConfig(p) ==
    /\ pc[p] = "load_config"
    /\ \E loaded \in BOOLEAN :
          IF loaded
          THEN /\ pc' = [pc EXCEPT ![p] = "command"]
               /\ UNCHANGED <<printed, exc>>
          ELSE /\ Executor_error(p, console[p],
                                 Error_error("CFG_NOT_LOADED", <<"ValidationError">>))
               /\ pc' = [pc EXCEPT ![p] = "terminate"]
    /\ UNCHANGED <<inv, waits, console, exitStatus, traceback, sql, spawned, dumpOut,
                   restoreOut, pullReturned, dbs, fs, passVars>>

\* Mutant of CheckDbAlias: the pull map is read from the stage environment
\* whatever the selected one.
CheckDbAlias_StageMap(p) ==
    /\ pc[p] = "command"
    /\ inv[p].cmd = "pull"
    /\ LET available == Config["stage"].pull IN
          IF inv[p].arg \notin Range(available)
          THEN /\ Executor_error(p, console[p], Error_found(inv[p].arg, available))
               /\ pc' = [pc EXCEPT ![p] = "ctx_exit"]
          ELSE /\ pc' = [pc EXCEPT ![p] = "pull_clean"]
               /\ UNCHANGED <<printed, exc>>
    /\ UNCHANGED <<inv, waits, console, exitStatus, traceback, sql, spawned, dumpOut,
                   restoreOut, pullReturned, dbs, fs, passVars>>

\* Cmd.check_db_alias, the first call of Interface.pull.
CheckDbAlias(p) ==
    /\ pc[p] = "command"
    /\ inv[p].cmd = "pull"
    /\ LET available == Config[inv[p].env].pull IN
          IF inv[p].arg \notin Range(available)
          THEN /\ Executor_error(p, console[p], Error_found(inv[p].arg, available))
               /\ pc' = [pc EXCEPT ![p] = "ctx_exit"]
          ELSE /\ pc' = [pc EXCEPT ![p] = "pull_clean"]
               /\ UNCHANGED <<printed, exc>>
    /\ UNCHANGED <<inv, waits, console, exitStatus, traceback, sql, spawned, dumpOut,
                   restoreOut, pullReturned, dbs, fs, passVars>>

(***************************************************************************)
(* The pull pipeline                                                       *)
(***************************************************************************)

\* Executor._pull up to the status context: the stale dump file is removed.
PullClean(p) ==
    /\ pc[p] = "pull_clean"
    /\ fs' = Executor_clean_temporary(fs, JobFile(p))
    /\ pc' = [pc EXCEPT ![p] = "create"]
    /\ UNCHANGED <<inv, waits, console, exc, printed, exitStatus, traceback, sql, spawned,
                   dumpOut, restoreOut, pullReturned, dbs, passVars>>

Statement(op, real_name) == [op |-> op, db |-> real_name]

\* Executor._create_and_drop_exist: the connection and the first
\* CREATE DATABASE, with the `except Exception` clause of its try.
CreateDatabase(p) ==
    /\ pc[p] = "create"
    /\ \/ \* psycopg.connect raises, outside the try statement
          /\ exc' = [exc EXCEPT ![p] = "OperationalError"]
          /\ pc' = [pc EXCEPT ![p] = "pull_except"]
          /\ UNCHANGED <<sql, dbs, printed>>
       \/ /\ sql' = [sql EXCEPT ![p] = Append(@, Statement("CREATE", JobDb(p)))]
          /\ IF JobDb(p) \in dbs
             THEN \* DuplicateDatabase
                  /\ pc' = [pc EXCEPT ![p] = "drop"]
                  /\ UNCHANGED <<dbs, printed, exc>>
             ELSE \/ /\ dbs' = dbs \cup {JobDb(p)}
                     /\ pc' = [pc EXCEPT ![p] = "dump_spawn"]
                     /\ UNCHANGED <<printed, exc>>
                  \/ \* any other error of the statement
                     /\ Executor_error(p, console[p],
                            Error_error("DB_PREPARE_LOCAL", <<"DatabaseError">>))
                     /\ pc' = [pc EXCEPT ![p] = "pull_except"]
                     /\ UNCHANGED dbs
    /\ UNCHANGED <<inv, waits, console, exitStatus, traceback, spawned, dumpOut,
                   restoreOut, pullReturned, fs, passVars>>

\* Mutant of DropDatabase: the DROP waits while another invocation works on
\* the same local database.
DropDatabase_Locked(p) ==
    /\ pc[p] = "drop"
    /\ \A q \in Procs \ {p} :
          JobDb(q) = JobDb(p) =>
              pc[q] \notin {"dump_spawn", "dump_read", "dump_except", "dump_wait",
                            "restore_spawn", "restore_read", "restore_wait"}
    /\ sql' = [sql EXCEPT ![p] = Append(@, Statement("DROP FORCE", JobDb(p)))]
    /\ IF JobDb(p) \in dbs
       THEN /\ dbs' = dbs \ {JobDb(p)}
            /\ pc' = [pc EXCEPT ![p] = "create_again"]
            /\ UNCHANGED exc
       ELSE /\ exc' = [exc EXCEPT ![p] = "DatabaseError"]
            /\ pc' = [pc EXCEPT ![p] = "pull_except"]
            /\ UNCHANGED dbs
    /\ UNCHANGED <<inv, waits, console, printed, exitStatus, traceback, spawned, dumpOut,
                   restoreOut, pullReturned, fs, passVars>>

\* Executor._create_and_drop_exist, `except DuplicateDatabase`: the DROP. An
\* exception raised here is raised inside a handler, so the sibling
\* `except Exception` clause does not see it.
DropDatabase(p) ==
    /\ pc[p] = "drop"
    /\ sql' = [sql EXCEPT ![p] = Append(@, Statement("DROP FORCE", JobDb(p)))]
    /\ IF JobDb(p) \in dbs
       THEN \/ /\ dbs' = dbs \ {JobDb(p)}
               /\ pc' = [pc EXCEPT ![p] = "create_again"]
               /\ UNCHANGED exc
            \/ /\ exc' = [exc EXCEPT ![p] = "OperationalError"]
               /\ pc' = [pc EXCEPT ![p] = "pull_except"]
               /\ UNCHANGED dbs
       ELSE \* the database is gone: the statement fails
            /\ exc' = [exc EXCEPT ![p] = "DatabaseError"]
            /\ pc' = [pc EXCEPT ![p] = "pull_except"]
            /\ UNCHANGED dbs
    /\ UNCHANGED <<inv, waits, console, printed, exitStatus, traceback, spawned, dumpOut,
                   restoreOut, pullReturned, fs, passVars>>

\* Executor._create_and_drop_exist, `except DuplicateDatabase`: the second
\* CREATE DATABASE.
CreateAgain(p) ==
    /\ pc[p] = "create_again"
    /\ sql' = [sql EXCEPT ![p] = Append(@, Statement("CREATE", JobDb(p)))]
    /\ IF JobDb(p) \in dbs
       THEN /\ exc' = [exc EXCEPT ![p] = "DuplicateDatabase"]
            /\ pc' = [pc EXCEPT ![p] = "pull_except"]
            /\ UNCHANGED dbs
       ELSE \/ /\ dbs' = dbs \cup {JobDb(p)}
               /\ pc' = [pc EXCEPT ![p] = "dump_spawn"]
               /\ UNCHANGED exc
            \/ /\ exc' = [exc EXCEPT ![p] = "OperationalError"]
               /\ pc' = [pc EXCEPT ![p] = "pull_except"]
               /\ UNCHANGED dbs
    /\ UNCHANGED <<inv, waits, console, printed, exitStatus, traceback, spawned, dumpOut,
                   restoreOut, pullReturned, fs, passVars>>

\* Executor._dump up to the try: Exec.process_dump spawns pg_dump -f <file>,
\* which may create the dump file; Popen raises when the program is missing.
DumpSpawn(p) ==
    /\ pc[p] = "dump_spawn"
    /\ \/ /\ spawned' = [spawned EXCEPT ![p] = Append(@, "pg_dump")]
          /\ \E wrote \in BOOLEAN :
                fs' = IF wrote THEN fs \cup {JobFile(p)} ELSE fs
          /\ pc' = [pc EXCEPT ![p] = "dump_read"]
          /\ UNCHANGED exc
       \/ /\ exc' = [exc EXCEPT ![p] = "OSError"]
          /\ pc' = [pc EXCEPT ![p] = "pull_except"]
          /\ UNCHANGED <<spawned, fs>>
    /\ UNCHANGED <<inv, waits, console, printed, exitStatus, traceback, sql, dumpOut,
                   restoreOut, pullReturned, dbs, passVars>>

\* Exec.capture_dump: one readline of the loop; b'' ends it, a line holding
\* 'error:' raises DotError.
CaptureDump(p) ==
    /\ pc[p] = "dump_read"
    /\ \/ /\ pc' = [pc EXCEPT ![p] = "dump_wait"]
          /\ UNCHANGED <<dumpOut, exc>>
       \/ /\ Len(dumpOut[p]) < MaxLines
          /\ \E outline \in Lines :
                /\ dumpOut' = [dumpOut EXCEPT ![p] = Append(@, outline)]
                /\ IF Contains(outline, ErrorMark)
                   THEN /\ exc' = [exc EXCEPT ![p] = "DotError"]
                        /\ pc' = [pc EXCEPT ![p] = "dump_except"]
                   ELSE UNCHANGED <<exc, pc>>
    /\ UNCHANGED <<inv, waits, console, printed, exitStatus, traceback, sql, spawned,
                   restoreOut, pullReturned, dbs, fs, passVars>>

\* Mutant of DumpExcept: the handler reports the Postgres class.
DumpExcept_AsPg(p) ==
    /\ pc[p] = "dump_except"
    /\ Executor_error(p, console[p], Error_error("DB_PG", <<exc[p]>>))
    /\ pc' = [pc EXCEPT ![p] = "dump_wait"]
    /\ UNCHANGED <<inv, waits, console, exitStatus, traceback, sql, spawned, dumpOut,
                   restoreOut, pullReturned, dbs, fs, passVars>>

\* Executor._dump, `except Exception as _err`.
DumpExcept(p) ==
    /\ pc[p] = "dump_except"
    /\ Executor_error(p, console[p], Error_error("DB_UNKNOWN", <<exc[p]>>))
    /\ pc' = [pc EXCEPT ![p] = "dump_wait"]
    /\ UNCHANGED <<inv, waits, console, exitStatus, traceback, sql, spawned, dumpOut,
                   restoreOut, pullReturned, dbs, fs, passVars>>

\* Mutant of DumpWait: the exception of the dump is dropped after the wait
\* and the pipeline goes on.
DumpWait_Swallow(p) ==
    /\ pc[p] = "dump_wait"
    /\ \E exited \in BOOLEAN :
          IF exited
          THEN /\ waits' = [waits EXCEPT ![p] = Append(@, "exited")]
               /\ pc' = [pc EXCEPT ![p] = "restore_spawn"]
               /\ exc' = [exc EXCEPT ![p] = "none"]
          ELSE /\ waits' = [waits EXCEPT ![p] = Append(@, "timeout")]
               /\ exc' = [exc EXCEPT ![p] = "TimeoutExpired"]
               /\ pc' = [pc EXCEPT ![p] = "pull_except"]
    /\ UNCHANGED <<inv, console, printed, exitStatus, traceback, sql, spawned,
                   dumpOut, restoreOut, pullReturned, dbs, fs, passVars>>

\* Mutant of DumpWait: a wait that times out returns like one that does not.
DumpWait_Silent(p) ==
    /\ pc[p] = "dump_wait"
    /\ \E exited \in BOOLEAN :
          waits' = [waits EXCEPT ![p] = Append(@, IF exited THEN "exited" ELSE "timeout")]
    /\ pc' = [pc EXCEPT ![p] =
                 IF exc[p] = "none" THEN "restore_spawn" ELSE "pull_except"]
    /\ UNCHANGED <<inv, console, exc, printed, exitStatus, traceback, sql, spawned,
                   dumpOut, restoreOut, pullReturned, dbs, fs, passVars>>

\* Executor._dump, `finally: _proc.wait(3)`: Popen.wait returns when the
\* process has exited and raises TimeoutExpired otherwise, which replaces an
\* exception already in flight.
DumpWait(p) ==
    /\ pc[p] = "dump_wait"
    /\ \E exited \in BOOLEAN :
          IF exited
          THEN /\ waits' = [waits EXCEPT ![p] = Append(@, "exited")]
               /\ pc' = [pc EXCEPT ![p] =
                            IF exc[p] = "none" THEN "restore_spawn" ELSE "pull_except"]
               /\ UNCHANGED exc
          ELSE /\ waits' = [waits EXCEPT ![p] = Append(@, "timeout")]
               /\ exc' = [exc EXCEPT ![p] = "TimeoutExpired"]
               /\ pc' = [pc EXCEPT ![p] = "pull_except"]
    /\ UNCHANGED <<inv, console, printed, exitStatus, traceback, sql, spawned,
                   dumpOut, restoreOut, pullReturned, dbs, fs, passVars>>

\* Executor._restore up to the try: Exec.process_restore spawns pg_restore.
RestoreSpawn(p) ==
    /\ pc[p] = "restore_spawn"
    /\ \/ /\ spawned' = [spawned EXCEPT ![p] = Append(@, "pg_restore")]
          /\ pc' = [pc EXCEPT ![p] = "restore_read"]
          /\ UNCHANGED exc
       \/ /\ exc' = [exc EXCEPT ![p] = "OSError"]
          /\ pc' = [pc EXCEPT ![p] = "pull_except"]
          /\ UNCHANGED spawned
    /\ UNCHANGED <<inv, waits, console, printed, exitStatus, traceback, sql, dumpOut,
                   restoreOut, pullReturned, dbs, fs, passVars>>

\* Exec.capture_restore: one readline of the loop; no line raises.
CaptureRestore(p) ==
    /\ pc[p] = "restore_read"
    /\ \/ /\ pc' = [pc EXCEPT ![p] = "restore_wait"]
          /\ UNCHANGED restoreOut
       \/ /\ Len(restoreOut[p]) < MaxLines
          /\ \E outline \in RestoreLines :
                restoreOut' = [restoreOut EXCEPT ![p] = Append(@, outline)]
          /\ UNCHANGED pc
    /\ UNCHANGED <<inv, waits, console, exc, printed, exitStatus, traceback, sql, spawned,
                   dumpOut, pullReturned, dbs, fs, passVars>>

\* Executor._restore, `finally: _proc.wait(3)`.
RestoreWait(p) ==
    /\ pc[p] = "restore_wait"
    /\ \E exited \in BOOLEAN :
          IF exited
          THEN /\ waits' = [waits EXCEPT ![p] = Append(@, "exited")]
               /\ pc' = [pc EXCEPT ![p] = "pull_finally"]
               /\ UNCHANGED exc
          ELSE /\ waits' = [waits EXCEPT ![p] = Append(@, "timeout")]
               /\ exc' = [exc EXCEPT ![p] = "TimeoutExpired"]
               /\ pc' = [pc EXCEPT ![p] = "pull_except"]
    /\ UNCHANGED <<inv, console, printed, exitStatus, traceback, sql, spawned,
                   dumpOut, restoreOut, pullReturned, dbs, fs, passVars>>

\* Cmd.pull, the except clauses: PG_ERRORS first, then (DotError, Exception);
\* SystemExit matches neither.
PullExcept(p) ==
    /\ pc[p] = "pull_except"
    /\ IF exc[p] \in PG_ERRORS
       THEN Executor_error(p, console[p], Error_error("DB_PG", <<exc[p]>>))
       ELSE IF exc[p] \in ExceptionClasses
       THEN Executor_error(p, console[p], Error_error("DB_UNKNOWN", <<exc[p]>>))
       ELSE UNCHANGED <<printed, exc>>
    /\ pc' = [pc EXCEPT ![p] = "pull_finally"]
    /\ UNCHANGED <<inv, waits, console, exitStatus, traceback, sql, spawned, dumpOut,
                   restoreOut, pullReturned, dbs, fs, passVars>>

\* Cmd.pull, `finally: self._clean_temporary(alias)`: the argument is the
\* alias, not the dump path.
PullFinally(p) ==
    /\ pc[p] = "pull_finally"
    /\ fs' = Executor_clean_temporary(fs, PathOf(inv[p].arg))
    /\ IF exc[p] = "none"
       THEN /\ pc' = [pc EXCEPT ![p] = "pull_info"]
            /\ UNCHANGED pullReturned
       ELSE /\ pc' = [pc EXCEPT ![p] = "ctx_exit"]
            /\ pullReturned' = [pullReturned EXCEPT ![p] = TRUE]
    /\ UNCHANGED <<inv, waits, console, exc, printed, exitStatus, traceback, sql, spawned,
                   dumpOut, restoreOut, dbs, passVars>>

\* Cmd.pull after the try statement: the info panel, then return.
PullInfo(p) ==
    /\ pc[p] = "pull_info"
    /\ printed' = [printed EXCEPT ![p] = Append(@, Msg_info(inv[p].env, inv[p].arg))]
    /\ pullReturned' = [pullReturned EXCEPT ![p] = TRUE]
    /\ pc' = [pc EXCEPT ![p] = "ctx_exit"]
    /\ UNCHANGED <<inv, waits, console, exc, exitStatus, traceback, sql, spawned, dumpOut,
                   restoreOut, dbs, fs, passVars>>

\* Executor.__exit__: KeyboardInterrupt is swallowed after _hang, every other
\* exception propagates.
ContextExit(p) ==
    /\ pc[p] = "ctx_exit"
    /\ IF exc[p] = "KeyboardInterrupt"
       THEN /\ printed' = [printed EXCEPT ![p] =
                              Append(@, [lb |-> "HANG", msg |-> "bye", args |-> <<>>])]
            /\ exc' = [exc EXCEPT ![p] = "none"]
       ELSE UNCHANGED <<printed, exc>>
    /\ pc' = [pc EXCEPT ![p] = "terminate"]
    /\ UNCHANGED <<inv, waits, console, exitStatus, traceback, sql, spawned, dumpOut,
                   restoreOut, pullReturned, dbs, fs, passVars>>

\* The interpreter under Fire(Interface): status 0 on return, the status of
\* SystemExit, or a traceback and status 1 for any other exception.
Terminate(p) ==
    /\ pc[p] = "terminate"
    /\ exitStatus' = [exitStatus EXCEPT ![p] = IF exc[p] = "none" THEN 0 ELSE 1]
    /\ traceback' = [traceback EXCEPT ![p] = exc[p] \notin {"none", "SystemExit"}]
    /\ pc' = [pc EXCEPT ![p] = "exited"]
    /\ UNCHANGED <<inv, waits, console, exc, printed, sql, spawned, dumpOut, restoreOut,
                   pullReturned, dbs, fs, passVars>>

(***************************************************************************)
(* k8s_apps                                                                *)
(***************************************************************************)

ContainerNames == {"api", "web"}
AppArgs == {"api", "web", "cron"}

\* _tznow, and the started_at instants of running containers before it.
TzNow == 3
StartTimes == {1, 2}
RestartCounts == {0, 1}

\* The i-th pod of _pods.items: metadata.name, status.pod_ip, status.host_ip
\* and, per container of spec.containers, its args (<<>> when it has none).
PodAt(i) ==
    [name    |-> <<"pod", i>>,
     pod_ip  |-> <<"10.0.0", i>>,
     host_ip |-> <<"node", i % 2>>,
     args    |-> [n \in ContainerNames |->
                     IF i % 2 = 0 THEN <<>> ELSE <<"--shard", i>>]]

\* Container statuses: name ("" when none is reported), ready,
\* state.running.started_at (<<>> when the container is not running) and
\* restart_count.
Statuses ==
    {[name |-> "", ready |-> TRUE, started_at |-> <<>>, restart_count |-> 0]}
    \cup {[name |-> n, ready |-> TRUE, started_at |-> <<>>, restart_count |-> 0] :
             n \in ContainerNames}
    \cup {[name |-> n, ready |-> FALSE, started_at |-> <<1>>, restart_count |-> 0] :
             n \in ContainerNames}
    \cup {[name |-> n, ready |-> TRUE, started_at |-> <<t>>, restart_count |-> r] :
             n \in ContainerNames, t \in StartTimes, r \in RestartCounts}

\* humanize.naturaltime of a timedelta, in minutes.
verbose_time(diff) ==
    IF diff = 0 THEN [n |-> 0, text |-> "now"]
    ELSE IF diff = 1 THEN [n |-> 1, text |-> "a minute ago"]
    ELSE [n |-> diff, text |-> "minutes ago"]

\* _fmt_runargs: ' '.join(spec.args) of the container's spec, None without args.
fmt_runargs(cont, pod) == pod.args[cont.name]

\* dict helpers: _apps.keys(), `name in _apps.keys()`, _apps[name].
Keys(d) == [i \in 1..Len(d) |-> d[i].name]
HasKey(d, name) == \E i \in 1..Len(d) : d[i].name = name
IndexOf(d, name) == CHOOSE i \in 1..Len(d) : d[i].name = name
Get(d, name) == d[IndexOf(d, name)]

\* Mutant of NewAppInfo: the record starts with no instance counted.
NewAppInfo_NoInstance(name, pod, cont, diff, _rebuilds) ==
    [name          |-> name,
     alias         |-> pod.name,
     deployed      |-> verbose_time(diff),
     pod_ips       |-> <<pod.pod_ip>>,
     host_ip       |-> pod.host_ip,
     restart_count |-> cont.restart_count,
     exec          |-> fmt_runargs(cont, pod),
     instances     |-> 0,
     diff          |-> diff,
     on_rebuild    |-> name \in Range(_rebuilds)]

\* k8s_apps, `_name not in _apps.keys()`: the AppInfo seeded from an instance.
NewAppInfo(name, pod, cont, diff, _rebuilds) ==
    [name          |-> name,
     alias         |-> pod.name,
     deployed      |-> verbose_time(diff),
     pod_ips       |-> <<pod.pod_ip>>,
     host_ip       |-> pod.host_ip,
     restart_count |-> cont.restart_count,
     exec          |-> fmt_runargs(cont, pod),
     instances     |-> 1,
     diff          |-> diff,
     on_rebuild    |-> name \in Range(_rebuilds)]

\* Mutant of UpdateAppInfo: the new minimum is counted but its pod IP is not
\* recorded.
UpdateAppInfo_NoIp(info, pod, cont, diff, _rebuilds) ==
    [info EXCEPT
        !.alias         = pod.name,
        !.deployed      = verbose_time(diff),
        !.restart_count = cont.restart_count,
        !.host_ip       = pod.host_ip,
        !.instances     = @ + 1,
        !.exec          = fmt_runargs(cont, pod),
        !.diff          = diff,
        !.on_rebuild    = info.name \in Range(_rebuilds)]

\* Mutant of UpdateAppInfo: the restart count of the fresher instance is not
\* copied.
UpdateAppInfo_KeepRestarts(info, pod, cont, diff, _rebuilds) ==
    [info EXCEPT
        !.alias         = pod.name,
        !.deployed      = verbose_time(diff),
        !.pod_ips       = Append(@, pod.pod_ip),
        !.host_ip       = pod.host_ip,
        !.instances     = @ + 1,
        !.exec          = fmt_runargs(cont, pod),
        !.diff          = diff,
        !.on_rebuild    = info.name \in Range(_rebuilds)]

\* k8s_apps, `_diff < _apps[_name].diff`: the record overwritten by a fresher
\* instance.
UpdateAppInfo(info, pod, cont, diff, _rebuilds) ==
    [info EXCEPT
        !.alias         = pod.name,
        !.deployed      = verbose_time(diff),
        !.restart_count = cont.restart_count,
        !.pod_ips       = Append(@, pod.pod_ip),
        !.host_ip       = pod.host_ip,
        !.instances     = @ + 1,
        !.exec          = fmt_runargs(cont, pod),
        !.diff          = diff,
        !.on_rebuild    = info.name \in Range(_rebuilds)]

VisitContainer_MergeTies(_apps, _rebuilds, pod, cont) ==
    IF cont.name = ""
    THEN [apps |-> _apps, rebuilds |-> _rebuilds]
    ELSE IF ~cont.ready \/ cont.started_at = <<>>
    THEN [apps |-> _apps, rebuilds |-> Append(_rebuilds, cont.name)]
    ELSE LET diff == TzNow - cont.started_at[1] IN
         IF ~HasKey(_apps, cont.name)
         THEN [apps     |-> Append(_apps, NewAppInfo(cont.name, pod, cont, diff, _rebuilds)),
               rebuilds |-> _rebuilds]
         ELSE IF diff <= Get(_apps, cont.name).diff
         THEN [apps     |-> [_apps EXCEPT ![IndexOf(_apps, cont.name)] =
                               UpdateAppInfo(@, pod, cont, diff, _rebuilds)],
               rebuilds |-> _rebuilds]
         ELSE [apps |-> _apps, rebuilds |-> _rebuilds]

\* k8s_apps, the body of the inner loop for one container status of one pod.
VisitContainer(_apps, _rebuilds, pod, cont) ==
    IF cont.name = ""
    THEN [apps |-> _apps, rebuilds |-> _rebuilds]
    ELSE IF ~cont.ready \/ cont.started_at = <<>>
    THEN [apps |-> _apps, rebuilds |-> Append(_rebuilds, cont.name)]
    ELSE LET diff == TzNow - cont.started_at[1] IN
         IF ~HasKey(_apps, cont.name)
         THEN [apps     |-> Append(_apps, NewAppInfo(cont.name, pod, cont, diff, _rebuilds)),
               rebuilds |-> _rebuilds]
         ELSE IF diff < Get(_apps, cont.name).diff
         THEN [apps     |-> [_apps EXCEPT ![IndexOf(_apps, cont.name)] =
                               UpdateAppInfo(@, pod, cont, diff, _rebuilds)],
               rebuilds |-> _rebuilds]
         ELSE [apps |-> _apps, rebuilds |-> _rebuilds]

\* k8s_apps before the loops: _apps = {}, _rebuilds = [], the pods are listed.
ListPods ==
    /\ passPc = "start"
    /\ apps' = <<>>
    /\ rebuilds' = <<>>
    /\ passPc' = "pods"
    /\ UNCHANGED <<curPod, nPods, seen, cliVars>>

\* k8s_apps, `for _pod in _pods.items`.
NextPod ==
    /\ passPc = "pods"
    /\ nPods < MaxPods
    /\ nPods' = nPods + 1
    /\ curPod' = <<PodAt(nPods + 1)>>
    /\ passPc' = "conts"
    /\ UNCHANGED <<apps, rebuilds, seen, cliVars>>

\* Container names are unique within a pod.
NameFree(pod, cont) ==
    \/ cont.name = ""
    \/ \A i \in 1..Len(seen) : ~(seen[i].pod = pod /\ seen[i].cont.name = cont.name)

\* k8s_apps, `for _cont in _pod.status.container_statuses`: one iteration.
VisitStatus ==
    /\ passPc = "conts"
    /\ Len(seen) < MaxVisits
    /\ \E cont \in Statuses :
          /\ NameFree(curPod[1], cont)
          /\ LET st == VisitContainer(apps, rebuilds, curPod[1], cont) IN
                /\ apps' = st.apps
                /\ rebuilds' = st.rebuilds
          /\ seen' = Append(seen, [pod |-> curPod[1], cont |-> cont])
    /\ UNCHANGED <<curPod, nPods, passPc, cliVars>>

\* k8s_apps: the container statuses of the pod are exhausted (at once when
\* the pod has none).
EndPod ==
    /\ passPc = "conts"
    /\ passPc' = "pods"
    /\ UNCHANGED <<apps, rebuilds, curPod, nPods, seen, cliVars>>

\* k8s_apps, `return _apps` after the last pod.
ReturnApps ==
    /\ passPc = "pods"
    /\ passPc' = "done"
    /\ UNCHANGED <<apps, rebuilds, curPod, nPods, seen, cliVars>>

\* k8s_apps as a function of the pod list: the same loop body folded over
\* the container statuses of every pod.
RECURSIVE VisitAll(_, _, _)
VisitAll(st, pod, conts) ==
    IF conts = <<>> THEN st
    ELSE VisitAll(VisitContainer(st.apps, st.rebuilds, pod, Head(conts)), pod, Tail(conts))

RECURSIVE VisitPods(_, _)
VisitPods(st, pods) ==
    IF pods = <<>> THEN st
    ELSE VisitPods(VisitAll(st, Head(pods).pod, Head(pods).conts), Tail(pods))

k8s_apps(pods) == VisitPods([apps |-> <<>>, rebuilds |-> <<>>], pods).apps

\* Pod lists a CLI command may be answered with: up to MaxPods pods of at most
\* one container status each.
PodLists ==
    UNION {
        {[i \in 1..n |-> [pod |-> PodAt(i), conts |-> c[i]]] :
            c \in [1..n -> {<<>>} \cup {<<s>> : s \in Statuses}]} :
        n \in 0..MaxPods}

(***************************************************************************)
(* The commands that list the workloads: show, log, config                 *)
(***************************************************************************)

\* Executor.k8s_client with Executor.k8s_path: the context file must exist
\* and load_kube_config must accept it.
K8sClient(p) ==
    /\ pc[p] = "command"
    /\ inv[p].cmd \in {"show", "log", "config"}
    /\ \/ /\ pc' = [pc EXCEPT ![p] = "k8s_apps"]
          /\ UNCHANGED <<printed, exc>>
       \/ /\ Executor_error(p, console[p], Error_error("K8_ENV_NOT_FOUND", <<>>))
          /\ pc' = [pc EXCEPT ![p] = "ctx_exit"]
       \/ /\ Executor_error(p, console[p],
                            Error_error("K8_ENV_CONF_LOAD", <<"ConfigException">>))
          /\ pc' = [pc EXCEPT ![p] = "ctx_exit"]
    /\ UNCHANGED <<inv, waits, console, exitStatus, traceback, sql, spawned, dumpOut,
                   restoreOut, pullReturned, dbs, fs, passVars>>

\* The call of k8s_apps by _show_app_log, _show_app_config and k8s_apps_info;
\* Ctrl-C during the call raises KeyboardInterrupt outside any handler.
K8sApps(p) ==
    /\ pc[p] = "k8s_apps"
    /\ \/ /\ \E pods \in PodLists : apps' = k8s_apps(pods)
          /\ pc' = [pc EXCEPT ![p] = IF inv[p].cmd = "show" THEN "show" ELSE "check_app"]
          /\ UNCHANGED exc
       \/ /\ exc' = [exc EXCEPT ![p] = "KeyboardInterrupt"]
          /\ pc' = [pc EXCEPT ![p] = "ctx_exit"]
          /\ UNCHANGED apps
    /\ UNCHANGED <<inv, waits, console, printed, exitStatus, traceback, sql, spawned,
                   dumpOut, restoreOut, pullReturned, dbs, fs,
                   rebuilds, curPod, nPods, seen, passPc>>

\* k8s_apps_info: the table is rendered, then either the next poll after
\* sleep(1) or the KeyboardInterrupt the loop catches.
ShowApps(p) ==
    /\ pc[p] = "show"
    /\ \/ pc' = [pc EXCEPT ![p] = "k8s_apps"]
       \/ pc' = [pc EXCEPT ![p] = "ctx_exit"]
    /\ UNCHANGED <<inv, waits, console, exc, printed, exitStatus, traceback, sql, spawned,
                   dumpOut, restoreOut, pullReturned, dbs, fs, passVars>>

\* Executor._check_app_name on the keys of the k8s_apps result.
CheckAppName(p) ==
    /\ pc[p] = "check_app"
    /\ LET _available_names == Keys(apps) IN
          IF inv[p].arg \notin Range(_available_names)
          THEN /\ Executor_error(p, console[p], Error_found(inv[p].arg, _available_names))
               /\ pc' = [pc EXCEPT ![p] = "ctx_exit"]
          ELSE /\ pc' = [pc EXCEPT ![p] = "app_spawn"]
               /\ UNCHANGED <<printed, exc>>
    /\ UNCHANGED <<inv, waits, console, exitStatus, traceback, sql, spawned, dumpOut,
                   restoreOut, pullReturned, dbs, fs, passVars>>

\* _show_app_config / _show_app_log after the check: kubectl is spawned and
\* its output printed on the console.
AppOutput(p) ==
    /\ pc[p] = "app_spawn"
    /\ spawned' = [spawned EXCEPT ![p] = Append(@, "kubectl")]
    /\ printed' = [printed EXCEPT ![p] =
                      Append(@, [lb |-> "OUTPUT", msg |-> inv[p].cmd,
                                 args |-> <<inv[p].arg>>])]
    /\ pc' = [pc EXCEPT ![p] = "ctx_exit"]
    /\ UNCHANGED <<inv, waits, console, exc, exitStatus, traceback, sql, dumpOut,
                   restoreOut, pullReturned, dbs, fs, passVars>>

(***************************************************************************)
(* Specifications                                                          *)
(***************************************************************************)

Blank(v) == [p \in Procs |-> v]

\* The command lines of dot.py.
Invocations ==
    {[cmd |-> "pull", env |-> e, arg |-> a] : e \in EnvArgs, a \in AliasArgs}
    \cup {[cmd |-> c, env |-> e, arg |-> a] :
             c \in {"log", "config"}, e \in EnvArgs, a \in AppArgs}
    \cup {[cmd |-> "show", env |-> e, arg |-> "none"] : e \in EnvArgs}

\* One invocation at process start. A local database and a dump file of an
\* earlier pull of the same job may exist, and so may a file named as the
\* alias in the working directory.
Init ==
    /\ \E i \in Invocations :
          /\ inv = [Blank(NoArgs) EXCEPT !["p1"] = i]
          /\ IF i.cmd = "pull"
             THEN /\ dbs \in SUBSET {dba(i.env, i.arg)}
                  /\ fs \in SUBSET {dba_file(app_dir, dba(i.env, i.arg)), PathOf(i.arg)}
             ELSE /\ dbs = {}
                  /\ fs = {}
    /\ pc = [Blank("idle") EXCEPT !["p1"] = "start"]
    /\ console = Blank(FALSE)
    /\ exc = Blank("none")
    /\ printed = Blank(<<>>)
    /\ exitStatus = Blank(-1)
    /\ traceback = Blank(FALSE)
    /\ sql = Blank(<<>>)
    /\ spawned = Blank(<<>>)
    /\ dumpOut = Blank(<<>>)
    /\ restoreOut = Blank(<<>>)
    /\ pullReturned = Blank(FALSE)
    /\ waits = Blank(<<>>)
    /\ apps = <<>>
    /\ rebuilds = <<>>
    /\ curPod = <<>>
    /\ nPods = 0
    /\ seen = <<>>
    /\ passPc = "idle"

Next ==
    \E p \in Procs :
        \/ InitConsole(p)
        \/ LoadConfig(p)
        \/ CheckDbAlias(p)
        \/ PullClean(p)
        \/ CreateDatabase(p)
        \/ DropDatabase(p)
        \/ CreateAgain(p)
        \/ DumpSpawn(p)
        \/ CaptureDump(p)
        \/ DumpExcept(p)
        \/ DumpWait(p)
        \/ RestoreSpawn(p)
        \/ CaptureRestore(p)
        \/ RestoreWait(p)
        \/ PullExcept(p)
        \/ PullFinally(p)
        \/ PullInfo(p)
        \/ K8sClient(p)
        \/ K8sApps(p)
        \/ ShowApps(p)
        \/ CheckAppName(p)
        \/ AppOutput(p)
        \/ ContextExit(p)
        \/ Terminate(p)

Spec == Init /\ [][Next]_vars

\* One pass of k8s_apps, no CLI invocation running.
InitApps ==
    /\ inv = Blank(NoArgs)
    /\ dbs = {}
    /\ fs = {}
    /\ pc = Blank("idle")
    /\ console = Blank(FALSE)
    /\ exc = Blank("none")
    /\ printed = Blank(<<>>)
    /\ exitStatus = Blank(-1)
    /\ traceback = Blank(FALSE)
    /\ sql = Blank(<<>>)
    /\ spawned = Blank(<<>>)
    /\ dumpOut = Blank(<<>>)
    /\ restoreOut = Blank(<<>>)
    /\ pullReturned = Blank(FALSE)
    /\ waits = Blank(<<>>)
    /\ apps = <<>>
    /\ rebuilds = <<>>
    /\ curPod = <<>>
    /\ nPods = 0
    /\ seen = <<>>
    /\ passPc = "start"

NextApps == ListPods \/ NextPod \/ VisitStatus \/ EndPod \/ ReturnApps

SpecApps == InitApps /\ [][NextApps]_vars

(***************************************************************************)
(* Properties                                                              *)
(***************************************************************************)

\* Positions of an invocation after Cmd.pull's except clauses have run.
AfterPull == {"pull_finally", "pull_info", "ctx_exit", "terminate", "exited"}

\* Positions inside Executor._pull at which a further step would start.
StepPositions == {"pull_clean", "create", "drop", "create_again", "dump_spawn",
                  "dump_read", "restore_spawn", "restore_read", "restore_wait"}

\* The panels of the error taxonomy printed by invocation p.
ErrorPanels(p) ==
    {i \in 1..Len(printed[p]) : printed[p][i].lb \in {"ERROR", "NOT FOUND"}}

\* pg_dump wrote a line holding 'error:'.
DumpFailed(p) == \E i \in 1..Len(dumpOut[p]) : Contains(dumpOut[p][i], ErrorMark)

\* The invocation is a pull in a valid environment.
IsPull(p) == inv[p].cmd = "pull" /\ inv[p].env \in Range(TermEnvs)

\* C1: once Cmd.pull has returned or raised, the job's dump file
\* dba_file(app_dir, "{env}_{alias}") does not exist, whatever the outcome.
C1_NoDumpFileAfterPull ==
    \A p \in Procs : pullReturned[p] => JobFile(p) \notin fs

\* C2: a pull of an alias that is no key of the environment's pull map ends
\* in check_db_alias with one NOT FOUND panel naming the alias and exactly
\* the aliases of that environment, before any statement on the local server
\* and before any subprocess.
C2_UnknownAliasFailsFast ==
    \A p \in Procs :
        (IsPull(p) /\ inv[p].arg \notin Range(Config[inv[p].env].pull)) =>
            /\ sql[p] = <<>>
            /\ spawned[p] = <<>>
            /\ pc[p] \notin StepPositions
            /\ ~pullReturned[p]
            /\ pc[p] = "ctx_exit" =>
                  /\ printed[p] = <<Error_found(inv[p].arg, Config[inv[p].env].pull)>>
                  /\ exc[p] = "SystemExit"
            /\ pc[p] = "exited" => exitStatus[p] = 1

C2_Witness ==
    /\ inv["p1"] = [cmd |-> "pull", env |-> "prod", arg |-> "exchange"]
    /\ pc["p1"] = "exited"
    /\ Len(printed["p1"]) = 1
    /\ printed["p1"][1].lb = "NOT FOUND"

\* C3: the steps run in the order prepare, dump, restore and a failure stops
\* the rest: pg_dump is spawned only after the local database was created
\* without error, pg_restore only after pg_dump, never after a dump line
\* holding 'error:', and no step starts with an exception in flight.
C3_StepsShortCircuit ==
    \A p \in Procs :
        /\ spawned[p] \in {<<>>, <<"pg_dump">>, <<"pg_dump", "pg_restore">>, <<"kubectl">>}
        /\ "pg_dump" \in Range(spawned[p]) =>
              /\ sql[p] \in {<<Statement("CREATE", JobDb(p))>>,
                             <<Statement("CREATE", JobDb(p)),
                               Statement("DROP FORCE", JobDb(p)),
                               Statement("CREATE", JobDb(p))>>}
              /\ JobDb(p) \in dbs
              /\ \A i \in ErrorPanels(p) : printed[p][i].msg # "DB_PREPARE_LOCAL"
        /\ DumpFailed(p) => "pg_restore" \notin Range(spawned[p])
        /\ exc[p] # "none" => pc[p] \notin StepPositions

C3_Witness ==
    /\ pc["p1"] = "exited"
    /\ Len(dumpOut["p1"]) = 1
    /\ Contains(dumpOut["p1"][1], ErrorMark)
    /\ spawned["p1"] = <<"pg_dump">>

\* C4 as stated: a dump line holding 'error:' aborts the pipeline and the
\* failure reported is of the DB_PG class, not DB_UNKNOWN.
C4_DumpErrorReportedAsPg ==
    \A p \in Procs :
        (DumpFailed(p) /\ pc[p] \in AfterPull) =>
            /\ ErrorPanels(p) # {}
            /\ \A i \in ErrorPanels(p) : printed[p][i].msg = "DB_PG"

\* C4 amended: a dump line holding 'error:' aborts the pipeline (no restore,
\* exit status 1) and every failure reported is of the DB_UNKNOWN class, the
\* first one naming the DotError of capture_dump.
C4_DumpErrorReportedAsUnknown ==
    \A p \in Procs :
        (DumpFailed(p) /\ pc[p] \in AfterPull \cup {"dump_wait", "pull_except"}) =>
            /\ ErrorPanels(p) # {}
            /\ printed[p][1] = Error_error("DB_UNKNOWN", <<"DotError">>)
            /\ \A i \in ErrorPanels(p) : printed[p][i].msg = "DB_UNKNOWN"
            /\ "pg_restore" \notin Range(spawned[p])
            /\ pc[p] # "pull_info"
            /\ pc[p] = "exited" => exitStatus[p] = 1

C4_Witness ==
    /\ pc["p1"] = "exited"
    /\ DumpFailed("p1")
    /\ Len(dumpOut["p1"]) = 2
    /\ printed["p1"] = <<Error_error("DB_UNKNOWN", <<"DotError">>)>>

\* The DROP or the second CREATE of _create_and_drop_exist failed and the
\* failure has been reported.
SecondPrepareFailure(p) ==
    /\ pc[p] \in AfterPull
    /\ Len(sql[p]) >= 2
    /\ spawned[p] = <<>>
    /\ ErrorPanels(p) # {}
    /\ \A i \in ErrorPanels(p) : printed[p][i].args # <<"OSError">>

\* C5: when the first CREATE raises DuplicateDatabase there is exactly one
\* DROP ... WITH (FORCE) and at most one further CREATE, and a failure of the
\* DROP or of the second CREATE is reported as DB_PREPARE_LOCAL.
C5_SecondFailureIsPrepareLocal ==
    \A p \in Procs :
        /\ Len(sql[p]) >= 2 =>
              /\ Len(sql[p]) <= 3
              /\ sql[p][2].op = "DROP FORCE"
              /\ \A i \in 1..Len(sql[p]) : i # 2 => sql[p][i].op = "CREATE"
        /\ SecondPrepareFailure(p) =>
              /\ Cardinality(ErrorPanels(p)) = 1
              /\ \A i \in ErrorPanels(p) : printed[p][i].msg = "DB_PREPARE_LOCAL"

\* C10: a fatal condition of the taxonomy (alias not found, prepare failure,
\* driver error, unknown dump/restore error, kube context load failure, app
\* not found) prints exactly one error panel and the process ends with a
\* non-zero status.
C10_OnePanelPerFailure ==
    \A p \in Procs :
        (pc[p] = "exited" /\ ~traceback[p]) =>
            /\ ErrorPanels(p) # {} => (Cardinality(ErrorPanels(p)) = 1 /\ exitStatus[p] = 1)
            /\ exitStatus[p] # 0 => Cardinality(ErrorPanels(p)) = 1

\* The visits of the pass so far that found a ready, running instance of
\* container name n, and those that found an instance of n not ready or with
\* no started_at.
IsReadyInstance(cont) == cont.name # "" /\ cont.ready /\ cont.started_at # <<>>
ReadyOf(n) == {i \in 1..Len(seen) : seen[i].cont.name = n /\ IsReadyInstance(seen[i].cont)}
NotReadyOf(n) == {i \in 1..Len(seen) : seen[i].cont.name = n /\ ~IsReadyInstance(seen[i].cont)}

\* Time since start of the instance of visit i, and the freshest ready
\* instances of n.
DiffOf(i) == TzNow - seen[i].cont.started_at[1]
Freshest(n) == {i \in ReadyOf(n) : \A j \in ReadyOf(n) : DiffOf(i) <= DiffOf(j)}

\* C6: for every container name and visit order, the record's canonical
\* fields (alias, deployed text, restart count, exec args, host IP, diff) are
\* those of a ready instance of the name with the smallest time since start.
C6_FreshestIsCanonical ==
    \A k \in 1..Len(apps) :
        \E i \in Freshest(apps[k].name) :
            /\ apps[k].alias = seen[i].pod.name
            /\ apps[k].deployed = verbose_time(DiffOf(i))
            /\ apps[k].restart_count = seen[i].cont.restart_count
            /\ apps[k].exec = seen[i].pod.args[apps[k].name]
            /\ apps[k].host_ip = seen[i].pod.host_ip
            /\ apps[k].diff = DiffOf(i)

C6_Witness ==
    /\ passPc = "done"
    /\ Len(seen) = 2
    /\ ReadyOf("api") = {1, 2}
    /\ DiffOf(2) < DiffOf(1)
    /\ seen[1].cont.restart_count # seen[2].cont.restart_count
    /\ Get(apps, "api").alias = seen[2].pod.name

\* C7: after the pass, every record's pod_ips holds one entry per ready
\* instance of its name seen in the pass and instances is their number,
\* whatever the visit order.
C7_AccumulatesEveryInstance ==
    passPc = "done" =>
        \A k \in 1..Len(apps) :
            /\ apps[k].instances = Cardinality(ReadyOf(apps[k].name))
            /\ Len(apps[k].pod_ips) = Cardinality(ReadyOf(apps[k].name))
            /\ \A i \in ReadyOf(apps[k].name) : seen[i].pod.pod_ip \in Range(apps[k].pod_ips)

\* C8: every container name that had at least one ready instance has a
\* record, and the record counts at least one instance.
C8_ReadyNameHasRecord ==
    \A n \in ContainerNames :
        ReadyOf(n) # {} => (HasKey(apps, n) /\ Get(apps, n).instances >= 1)

C8_Witness ==
    /\ passPc = "done"
    /\ Cardinality(ReadyOf("web")) = 2
    /\ HasKey(apps, "web")
    /\ Get(apps, "web").instances = 1

\* C9: an instance that is not ready or has no started_at adds nothing to
\* instances or pod_ips, and the record of its name, when the result has
\* one, has on_rebuild = TRUE.
C9_NotReadyMarksRebuilding ==
    passPc = "done" =>
        \A k \in 1..Len(apps) :
            /\ apps[k].instances <= Cardinality(ReadyOf(apps[k].name))
            /\ Len(apps[k].pod_ips) <= Cardinality(ReadyOf(apps[k].name))
            /\ NotReadyOf(apps[k].name) # {} => apps[k].on_rebuild

\* The visit a step of the pass has just made, when it made one.
Visited == Len(seen') = Len(seen) + 1
LastSeen == seen'[Len(seen')]

\* C11: a visit of a ready instance whose name already has a record and
\* whose time since start is greater than or equal to the recorded one leaves
\* every record as it was: no field is overwritten, no pod IP is appended and
\* instances is not incremented.
C11_NotSmallerLeavesRecord ==
    [][(/\ Visited
        /\ IsReadyInstance(LastSeen.cont)
        /\ HasKey(apps, LastSeen.cont.name)
        /\ TzNow - LastSeen.cont.started_at[1] >= Get(apps, LastSeen.cont.name).diff)
          => (apps' = apps /\ rebuilds' = rebuilds)]_vars

C11_Witness ==
    /\ Len(seen) = 2
    /\ ReadyOf("api") = {1, 2}
    /\ DiffOf(2) >= DiffOf(1)
    /\ seen[1].cont.restart_count # seen[2].cont.restart_count
    /\ Get(apps, "api").instances = 1
    /\ Get(apps, "api").pod_ips = <<seen[1].pod.pod_ip>>
    /\ Get(apps, "api").restart_count = seen[1].cont.restart_count

\* A _proc.wait(3) of invocation p has timed out.
TimedOut(p) == "timeout" \in Range(waits[p])
TimeoutPanel == Error_error("DB_UNKNOWN", <<"TimeoutExpired">>)

\* C12 as stated: a wait that times out is silent: no exception is raised and
\* no error is reported because of it, and the pipeline goes on as if the
\* process had exited (after a clean dump stream the restore step is next).
C12_TimeoutIsSilent ==
    \A p \in Procs :
        TimedOut(p) =>
            /\ exc[p] # "TimeoutExpired"
            /\ \A i \in ErrorPanels(p) : printed[p][i] # TimeoutPanel
            /\ (waits[p] = <<"timeout">> /\ ~DumpFailed(p)) => pc[p] # "pull_except"

\* C12 amended: a wait that times out raises TimeoutExpired, which ends the
\* pipeline: no later wait happens, the restore step does not start after a
\* timed out dump wait, Cmd.pull reports the timeout as the last panel, of
\* the DB_UNKNOWN class, no info panel follows and the exit status is 1.
C12_TimeoutAbortsPull ==
    \A p \in Procs :
        TimedOut(p) =>
            /\ waits[p][Len(waits[p])] = "timeout"
            /\ \A i \in 1..(Len(waits[p]) - 1) : waits[p][i] = "exited"
            /\ pc[p] \in {"pull_except"} \cup (AfterPull \ {"pull_info"})
            /\ pc[p] = "pull_except" => exc[p] = "TimeoutExpired"
            /\ pc[p] \in AfterPull =>
                  /\ printed[p] # <<>>
                  /\ printed[p][Len(printed[p])] = TimeoutPanel
            /\ waits[p] = <<"timeout">> => "pg_restore" \notin Range(spawned[p])
            /\ pc[p] = "exited" => exitStatus[p] = 1

C12_Witness ==
    /\ pc["p1"] = "exited"
    /\ waits["p1"] = <<"timeout">>
    /\ Len(dumpOut["p1"]) = 1
    /\ ~DumpFailed("p1")
    /\ spawned["p1"] = <<"pg_dump">>
    /\ printed["p1"] = <<TimeoutPanel>>
    /\ exitStatus["p1"] = 1

\* The invocation names an environment other than 'stage' and 'prod'.
InvalidEnv(p) == inv[p].cmd # "none" /\ inv[p].env \notin Range(TermEnvs)

\* C13: constructing the Executor with an environment other than 'stage' or
\* 'prod' prints one not-found panel listing the valid environments and the
\* process exits with a non-zero status, before the configuration is loaded
\* or a command runs.
C13_InvalidEnvPrintsNotFound ==
    \A p \in Procs :
        InvalidEnv(p) =>
            /\ pc[p] \in {"start", "terminate", "exited"}
            /\ pc[p] \in {"terminate", "exited"} =>
                  printed[p] = <<Error_found(inv[p].env, TermEnvs)>>
            /\ pc[p] = "exited" => exitStatus[p] # 0

\* Two invocations of `dot.py pull exchange --env stage` started side by
\* side: each is its own process with its own Executor; the local Postgres
\* server and the working directory are shared.
RacePull == [cmd |-> "pull", env |-> "stage", arg |-> "exchange"]

InitRace ==
    /\ inv = Blank(RacePull)
    /\ dbs \in SUBSET {dba(RacePull.env, RacePull.arg)}
    /\ fs = {}
    /\ pc = Blank("start")
    /\ console = Blank(FALSE)
    /\ exc = Blank("none")
    /\ printed = Blank(<<>>)
    /\ exitStatus = Blank(-1)
    /\ traceback = Blank(FALSE)
    /\ sql = Blank(<<>>)
    /\ spawned = Blank(<<>>)
    /\ dumpOut = Blank(<<>>)
    /\ restoreOut = Blank(<<>>)
    /\ pullReturned = Blank(FALSE)
    /\ waits = Blank(<<>>)
    /\ apps = <<>>
    /\ rebuilds = <<>>
    /\ curPod = <<>>
    /\ nPods = 0
    /\ seen = <<>>
    /\ passPc = "idle"

\* The subprocess output read by the two invocations together stays within
\* MaxRaceLines.
RaceLines ==
    Len(dumpOut["p1"]) + Len(restoreOut["p1"])
        + Len(dumpOut["p2"]) + Len(restoreOut["p2"]) <= MaxRaceLines

\* The readline loops of the two invocations, within the bound.
RaceCaptureDump(p) == CaptureDump(p) /\ RaceLines'
RaceCaptureRestore(p) == CaptureRestore(p) /\ RaceLines'

\* The steps of the two processes interleave freely: nothing in Interface.pull,
\* Cmd.pull or Executor takes a lock.
NextRace ==
    \E p \in Procs :
        \/ InitConsole(p)
        \/ LoadConfig(p)
        \/ CheckDbAlias(p)
        \/ PullClean(p)
        \/ CreateDatabase(p)
        \/ DropDatabase(p)
        \/ CreateAgain(p)
        \/ DumpSpawn(p)
        \/ RaceCaptureDump(p)
        \/ DumpExcept(p)
        \/ DumpWait(p)
        \/ RestoreSpawn(p)
        \/ RaceCaptureRestore(p)
        \/ RestoreWait(p)
        \/ PullExcept(p)
        \/ PullFinally(p)
        \/ PullInfo(p)
        \/ ContextExit(p)
        \/ Terminate(p)

SpecRace == InitRace /\ [][NextRace]_vars

\* Invocation p has created the job's local database and its restore has
\* not finished.
Restoring(p) ==
    /\ pc[p] \in {"dump_spawn", "dump_read", "dump_except", "dump_wait",
                  "restore_spawn", "restore_read", "restore_wait"}
    /\ sql[p] # <<>>
    /\ sql[p][Len(sql[p])].op = "CREATE"

\* C14: pulls of the same alias in the same environment are not
\* coordinated: while one invocation has created the local database and its
\* restore has not finished, the CREATE, the DROP ... WITH (FORCE) and the
\* second CREATE of another invocation on the same database are never held
\* back.
C14_PrepareNeverHeldBack ==
    \A p \in Procs : \A q \in Procs \ {p} :
        (JobDb(p) = JobDb(q) /\ Restoring(p)) =>
            /\ pc[q] = "create" => ENABLED CreateDatabase(q)
            /\ pc[q] = "drop" => ENABLED DropDatabase(q)
            /\ pc[q] = "create_again" => ENABLED CreateAgain(q)

\* p2's DROP ran after p1 created the database and while p1's pg_restore is
\* running: p1 restores into a database that no longer exists.
C14_Witness ==
    /\ pc["p1"] = "restore_read"
    /\ Restoring("p1")
    /\ JobDb("p2") = JobDb("p1")
    /\ pc["p2"] = "create_again"
    /\ sql["p2"][Len(sql["p2"])] = Statement("DROP FORCE", JobDb("p1"))
    /\ JobDb("p1") \notin dbs

\* C15: at every point of the pass, a container name has a record if and
\* only if at least one of its instances visited so far was ready with a
\* start timestamp (a name whose instances are all not ready has none), the
\* keys are distinct, and every record has as many pod IPs as instances.
C15_KeysAreReadyNames ==
    /\ \A n \in ContainerNames : HasKey(apps, n) <=> ReadyOf(n) # {}
    /\ \A k \in 1..Len(apps) :
          /\ apps[k].name \in ContainerNames
          /\ \A l \in 1..Len(apps) : apps[l].name = apps[k].name => l = k
          /\ Len(apps[k].pod_ips) = apps[k].instances

C15_Witness ==
    /\ passPc = "done"
    /\ NotReadyOf("api") # {}
    /\ ReadyOf("api") = {}
    /\ ~HasKey(apps, "api")
    /\ "api" \in Range(rebuilds)
    /\ HasKey(apps, "web")
    /\ Get(apps, "web").instances = 2
    /\ Len(Get(apps, "web").pod_ips) = 2
====
